---- MODULE Spec2Model ----
(***************************************************************************)
(* The equal-marginal vote optimizer of pythfarms and the policy layers   *)
(* composed on it (budget guards, safe allocation, risk blend).           *)
(*                                                                        *)
(* Numbers are Python Decimal values: decimal floating point, every       *)
(* operation rounded half-even to the context precision.  The scripts set *)
(* the precision to 50 digits; the model keeps Prec digits, so that every *)
(* intermediate fits TLC's integers, and keeps the rounding rule.  The    *)
(* precision is read from the decimal context, which is process state:    *)
(* the variable prec.                                                     *)
(***************************************************************************)
EXTENDS Integers, Sequences, FiniteSets, TLC

\* Working precision of the decimal context, in digits (the scripts use 50).
Prec == 3

\* Largest number of pools in a dashboard.
MaxPools == 2

\* getcontext().prec: the precision every Decimal operation rounds to
VARIABLE prec

----------------------------------------------------------------------------
(* Decimal arithmetic.  A value is [m, e], meaning m * 10^e, with          *)
(* 10^(prec-1) <= |m| < 10^prec, or m = 0 and e = 0.                       *)

Abs(n) == IF n < 0 THEN -n ELSE n

Sgn(n) == IF n < 0 THEN -1 ELSE IF n = 0 THEN 0 ELSE 1

RECURSIVE Digits(_)
Digits(n) == IF n < 10 THEN 1 ELSE 1 + Digits(n \div 10)

Zero == [m |-> 0, e |-> 0]

\* s * n * 10^e rounded half-even to prec digits; sticky: the exact value has
\* a nonzero part below the last digit of n.
Round(s, n, e, sticky) ==
    IF n = 0 THEN Zero
    ELSE LET k == Digits(n) IN
         IF k <= prec
         THEN [m |-> s * n * 10^(prec - k), e |-> e - (prec - k)]
         ELSE LET r    == k - prec
                  q    == n \div 10^r
                  rem  == n % 10^r
                  half == 5 * 10^(r - 1)
                  up   == rem > half \/ (rem = half /\ (sticky \/ q % 2 = 1))
                  q1   == IF up THEN q + 1 ELSE q
              IN  IF q1 = 10^prec
                  THEN [m |-> s * 10^(prec - 1), e |-> e + r + 1]
                  ELSE [m |-> s * q1, e |-> e + r]

\* Decimal("n e<e>")
Dec(n, e) == Round(Sgn(n), Abs(n), e, FALSE)

Neg(a) == [m |-> -a.m, e |-> a.e]

DAbs(a) == [m |-> Abs(a.m), e |-> a.e]

Lt(a, b) ==
    IF Sgn(a.m) # Sgn(b.m) THEN a.m < b.m
    ELSE IF a.m = 0 THEN FALSE
    ELSE IF a.e # b.e THEN (IF a.m > 0 THEN a.e < b.e ELSE a.e > b.e)
    ELSE a.m < b.m

Le(a, b) == ~Lt(b, a)

Mul(a, b) ==
    IF a.m = 0 \/ b.m = 0 THEN Zero
    ELSE Round(Sgn(a.m) * Sgn(b.m), Abs(a.m) * Abs(b.m), a.e + b.e, FALSE)

\* a / b, b # 0
Div(a, b) ==
    IF a.m = 0 THEN Zero
    ELSE LET n == Abs(a.m) * 10^(prec + 1)
             d == Abs(b.m)
         IN  Round(Sgn(a.m) * Sgn(b.m), n \div d, a.e - b.e - (prec + 1), n % d # 0)

AddOrdered(big, small) ==
    LET d      == big.e - small.e
        g      == prec + 1
        sm     == Abs(small.m)
        ss     == Sgn(small.m)
        B      == IF d <= g THEN sm * 10^(g - d)
                  ELSE IF d - g >= prec THEN 0
                  ELSE sm \div 10^(d - g)
        sticky == d > g /\ (IF d - g >= prec THEN TRUE ELSE sm % 10^(d - g) # 0)
        T      == big.m * 10^g + ss * B
    IN  IF T = 0 THEN Zero
        ELSE IF ~sticky \/ Sgn(T) = ss THEN Round(Sgn(T), Abs(T), big.e - g, sticky)
        ELSE Round(Sgn(T), Abs(T) - 1, big.e - g, TRUE)

Add(a, b) ==
    IF a.m = 0 THEN b
    ELSE IF b.m = 0 THEN a
    ELSE IF a.e >= b.e THEN AddOrdered(a, b) ELSE AddOrdered(b, a)

Sub(a, b) == Add(a, Neg(b))

RECURSIVE ISqrt(_, _, _)
ISqrt(n, lo, hi) ==
    IF hi - lo <= 1 THEN lo
    ELSE LET mid == (lo + hi) \div 2
         IN  IF mid * mid <= n THEN ISqrt(n, mid, hi) ELSE ISqrt(n, lo, mid)

\* Decimal.sqrt(), a >= 0
Sqrt(a) ==
    IF a.m = 0 THEN Zero
    ELSE LET s == IF (a.e - (prec - 1)) % 2 = 0 THEN prec - 1 ELSE prec
             n == a.m * 10^s
             r == ISqrt(n, 10^(prec - 1), 10^prec)
         IN  Round(1, IF n > r * r + r THEN r + 1 ELSE r, (a.e - s) \div 2, FALSE)

One == Dec(1, 0)

Two == Dec(2, 0)

Max2(a, b) == IF Lt(a, b) THEN b ELSE a

\* x.to_integral_value(ROUND_HALF_UP) and x.quantize(Decimal('1'), ROUND_HALF_UP),
\* as an integer: the nearest integer, a tie going away from zero
IntegralHalfUp(x) ==
    IF x.e >= 0 THEN x.m * 10^x.e
    ELSE IF -x.e > prec THEN 0
    ELSE LET unit == 10^(-x.e)
             q    == Abs(x.m) \div unit
             rem  == Abs(x.m) % unit
         IN  Sgn(x.m) * (IF 2 * rem >= unit THEN q + 1 ELSE q)

\* x.quantize(Decimal('0.01'), ROUND_HALF_UP), as an integer number of cents
Cents(x) == IntegralHalfUp([m |-> x.m, e |-> x.e + 2])

\* x rounded half-even to n significant digits, n <= prec
RoundDigits(x, n) ==
    IF x.m = 0 THEN Zero
    ELSE LET unit == 10^(prec - n)
             q    == Abs(x.m) \div unit
             rem  == Abs(x.m) % unit
             up   == 2 * rem > unit \/ (2 * rem = unit /\ q % 2 = 1)
         IN  Round(Sgn(x.m), IF up THEN q + 1 ELSE q, x.e + (prec - n), FALSE)

\* Decimal(str(float(x))): a float keeps about 17 of the context's 50 digits;
\* the model keeps one digit less than the context
ViaFloat(x) == RoundDigits(x, prec - 1)

----------------------------------------------------------------------------
(* Inputs.  A dashboard pool is [R, W]: revenue (total_usd / bribes_usd)   *)
(* and committed weight (weight / pool_votes_period).                      *)

\* no budget, an ordinary budget, and one beyond what lambda = 1e-30 can place
Budgets == {Zero, Dec(20, 0), Dec(1, 17)}

\* already_cast: the sum of the dashboard's our_votes fields (aero)
Casts == {Zero, Dec(20, 0)}

\* RISK_AVERSION, in percent
RiskLevels == {0, 50, 100}

PoolRec(r, w) == [R |-> Dec(r, 0), W |-> Dec(w, 0)]

\* two pools with revenue and weight, one with revenue and no weight yet, one
\* without revenue, and the invalid records: negative revenue, negative weight
PoolRecs == {PoolRec(100, 10), PoolRec(50, 10), PoolRec(100, 0), PoolRec(0, 10),
             PoolRec(-1, 0), PoolRec(100, -1)}

PoolLists == UNION {[1..n -> PoolRecs] : n \in 0..MaxPools}

\* the solver's callers: aero/algo/optimizer_corrected_logic.py (__main__),
\* shadow/lib/optimizer.py (run_optimization), algo/advanced_optimizer_variable.py
\* and algo/advanced_optimizer_with_avoidance.py (main)
Sites == {"aero", "shadow", "variable", "avoidance"}

BlendSites == {"variable", "avoidance"}

\* AVOID_FOUNDATION, in percent; the exponent 2 * alpha is then 0 or 2
AvoidLevels == {0, 100}

\* relay scores, as build_relay_penalties clamps them
Scores == {Zero, Dec(1, 0)}

\* the caller's prior vote on a pool
PriorVotes == {Dec(20, 0)}

NoVote == [has |-> FALSE, w |-> Zero]

\* get_user_votes was not called, or it returned None
NoUserVotes == [ok |-> FALSE, votes |-> <<>>, other |-> FALSE]

VoteRecs == {NoVote} \cup {[has |-> TRUE, w |-> v] : v \in PriorVotes}

\* the dashboards of run_optimize: a pool the caller can have outvoted, one
\* it cannot, and one with an invalid weight
ShadowRecs == {PoolRec(100, 30), PoolRec(50, 10), PoolRec(100, -1)}

ShadowLists == UNION {[1..n -> ShadowRecs] : n \in 0..MaxPools}

\* Largest number of entries in a list of allocations or scores.
MaxEntries == 3

\* The size of a large dashboard of equal pools.
ManyPools == 40

\* allocations as the solver returns them and scores as compute_scores does:
\* none negative; equal values come from equal pools
Amounts == {Zero, Dec(1, 0), Dec(2, 0)}

AmountLists == UNION {[1..n -> Amounts] : n \in 0..MaxEntries}

\* ManyPools pools of the same score
EqualScores == [i \in 1..ManyPools |-> Dec(1, 0)]

\* build_relay_penalties(relay_votes, top_k=3)
TOP_K == 3

\* a relay of relay_votes.json: its voting_amount (0 when it does not parse)
\* and its votes, each the index of a pool and a percent
RelayRecs ==
    {[va |-> Dec(a, 0), votes |-> <<[pool |-> q, percent |-> c]>>] :
        a \in {1, 2}, q \in 1..MaxPools, c \in {50, 100}}

\* up to one relay more than top_k
RelayLists == UNION {[1..n -> RelayRecs] : n \in 0..(TOP_K + 1)}

\* the avoidance levels with the exponents 0, 1 and 2
AvoidLevelsAll == {0, 50, 100}

\* dashboards of valid pools
ValidDashes ==
    {<<PoolRec(100, 10)>>, <<PoolRec(100, 10), PoolRec(50, 10)>>,
     <<PoolRec(0, 10), PoolRec(100, 0)>>}

VARIABLES
    site,           \* the script that runs
    dash,           \* the dashboard's pools, as loaded
    power,          \* our_voting_power / voting_power
    RW,             \* the (p, R, W) list handed to the solver; p indexes dash
    P,              \* the budget handed to the solver
    pc,             \* position of the run
    lo, hi,         \* the bracket of lambda
    lam,            \* the multiplier used by the closed form
    k,              \* bracketing iterations done
    it,             \* bisection iterations done
    alloc,          \* the solver's result, aligned with RW
    safe,           \* the safe allocation, aligned with RW
    comb,           \* the blended allocation, aligned with RW
    RISK_AVERSION,  \* the risk level of the blend
    already_cast,   \* aero: votes already cast this epoch
    re_run,         \* shadow: the caller already voted in this period
    previous_votes, \* shadow: per dashboard pool, [has, w]: the caller's prior vote
    AVOID_FOUNDATION, \* avoidance: the avoidance level, in percent
    penalties,      \* avoidance: per dashboard pool, the relay score
    relay_votes,    \* avoidance: the relays of relay_votes.json
    is_historical,  \* shadow: run_optimize on a past period
    basic_scores,   \* basic: the (symbol, pool, score) list, as its scores
    pct,            \* the integer percentages emitted, by position
    exp_usd,        \* the expected values emitted, in cents, by position
    total_expected_usd, \* their reported total, in cents
    results,        \* the allocations the solver has returned, call by call
    args,           \* the arguments of the solver's calls to come, call by call
    running,        \* the thread that holds the interpreter; 0 is the main thread
    saved,          \* per thread that waits: its locals and its decimal context
    user_votes,     \* shadow: what get_user_votes(period) returns: [ok, votes]
    err             \* the exception that ended the run, or "none"

vars == <<site, dash, power, RW, P, pc, lo, hi, lam, k, it, alloc, safe, comb,
          RISK_AVERSION, already_cast, re_run, previous_votes, AVOID_FOUNDATION,
          penalties, relay_votes, is_historical, basic_scores, pct, exp_usd,
          total_expected_usd, results, prec, args, running, saved, user_votes,
          err>>

inputVars == <<site, dash, power, already_cast, re_run, previous_votes,
               AVOID_FOUNDATION, penalties, relay_votes, is_historical,
               basic_scores, prec, args, running, saved, user_votes>>

outVars == <<pct, exp_usd, total_expected_usd, results>>

solverVars == <<lo, hi, lam, k, it, alloc>>

blendVars == <<safe, comb, RISK_AVERSION>>

TOL == Dec(1, -12)

MAX_ITERS == 100

MAX_DOUBLINGS == 200

LAM_LO == Dec(1, -30)

LAM_HI == Dec(1, 0)

----------------------------------------------------------------------------
(* The equal-marginal solver.                                              *)

\* the filter with R >= 0 in place of R > 0
IsActiveNonNegative(p) == Le(Zero, p.R) /\ Le(Zero, p.W)

\* the active-set filter
IsActive(p) == Lt(Zero, p.R) /\ Le(Zero, p.W)

Active(rw) == SelectSeq(rw, IsActive)

Zeros(rw) == [i \in 1..Len(rw) |-> Zero]

\* one pool's term of sum_delta: max(sqrt(R*W/lam) - W, 0), skipped when R*W <= 0
DeltaTerm(p, l) ==
    LET num == Mul(p.R, p.W)
    IN  IF Le(num, Zero) THEN Zero
        ELSE LET d == Sub(Sqrt(Div(num, l)), p.W)
             IN  IF Lt(Zero, d) THEN d ELSE Zero

RECURSIVE SumFrom(_, _, _, _)
SumFrom(act, l, i, total) ==
    IF i > Len(act) THEN total
    ELSE SumFrom(act, l, i + 1, Add(total, DeltaTerm(act[i], l)))

\* sum_delta(lam) over the active pools
sum_delta(rw, l) == SumFrom(Active(rw), l, 1, Zero)

\* the bracketing test with <= in place of <
BracketedLe(s, budget) == Le(s, budget)

\* the test that ends bracketing
Bracketed(s, budget) == Lt(s, budget)

\* bisection without the early exit
NeverConverged(s, budget) == FALSE

\* the test that ends bisection early
Converged(s, budget) == Lt(DAbs(Sub(s, budget)), TOL)

\* the final allocation of one pool
ClosedForm(p, l) ==
    IF Le(p.R, Zero) \/ Lt(p.W, Zero) THEN Zero
    ELSE LET d == Sub(Sqrt(Div(Mul(p.R, p.W), l)), p.W)
         IN  IF Lt(Zero, d) THEN d ELSE Zero

----------------------------------------------------------------------------
(* The callers: what each script hands to the solver.                      *)

Base(d) == [i \in 1..Len(d) |-> [p |-> i, R |-> d[i].R, W |-> d[i].W]]

\* sorted(pools, key=bribes_usd, reverse=True): stable, largest revenue first
RECURSIVE InsertDesc(_, _)
InsertDesc(sorted, x) ==
    IF sorted = <<>> THEN <<x>>
    ELSE IF Lt(Head(sorted).R, x.R) THEN <<x>> \o sorted
    ELSE <<Head(sorted)>> \o InsertDesc(Tail(sorted), x)

RECURSIVE SortDesc(_, _, _)
SortDesc(rw, i, acc) ==
    IF i > Len(rw) THEN acc ELSE SortDesc(rw, i + 1, InsertDesc(acc, rw[i]))

TOP_POOLS == 10

TopByRevenue(rw) ==
    LET s == SortDesc(rw, 1, <<>>)
    IN  SubSeq(s, 1, IF Len(s) < TOP_POOLS THEN Len(s) ELSE TOP_POOLS)

\* the deduction applied to every pool, whether or not this is a re-run
DeductAlways(x, rerun, prev) == Max2(Sub(x.W, prev[x.p].w), Zero)

\* the dashboard weight handed on as it is, re-run or not
NoDeduction(x, rerun, prev) == x.W

\* the committed weight run_optimization hands to the solver for pool x
RerunWeight(x, rerun, prev) ==
    IF rerun /\ (\E j \in 1..Len(prev) : prev[j].has) /\ prev[x.p].has
    THEN Max2(Sub(x.W, prev[x.p].w), Zero)
    ELSE x.W

\* aero/algo/optimizer_corrected_logic.py; the dashboard weight stands for
\* the on-chain weight plus the relay weight
MainAero ==
    /\ pc = "main" /\ site = "aero"
    /\ P' = Max2(Sub(power, already_cast), Zero)
    /\ RW' = Base(dash)
    /\ pc' = "solve"
    /\ UNCHANGED <<inputVars, outVars, solverVars, blendVars, err>>

\* run_optimization's list base: the ten pools of largest revenue, each with
\* the weight the solver is to use
SolverInput(d, rerun, prev) ==
    LET top == TopByRevenue(Base(d))
    IN  [i \in 1..Len(top) |->
            [top[i] EXCEPT !.W = RerunWeight(top[i], rerun, prev)]]

\* shadow/lib/optimizer.py, run_optimization
MainShadow ==
    /\ pc = "main" /\ site = "shadow"
    /\ P' = power
    /\ RW' = SolverInput(dash, re_run, previous_votes)
    /\ pc' = "solve"
    /\ UNCHANGED <<inputVars, outVars, solverVars, blendVars, err>>

\* the pool_votes_period deduct_user_votes writes, through a float, without
\* the lower limit 0
DeductedWeight(w, vote) == ViaFloat(Sub(w, vote))

\* the deduction of deduct_user_votes made twice
DeductTwice(d, votes) ==
    [i \in 1..Len(d) |->
        IF votes[i].has
        THEN [R |-> d[i].R,
              W |-> DeductedWeight(DeductedWeight(d[i].W, votes[i].w), votes[i].w)]
        ELSE d[i]]

\* deduct_user_votes(dashboard, user_votes): a copy of the pools, the caller's
\* vote taken off the weight of each pool it voted for
deduct_user_votes(d, votes) ==
    [i \in 1..Len(d) |->
        IF votes[i].has
        THEN [R |-> d[i].R, W |-> DeductedWeight(d[i].W, votes[i].w)]
        ELSE d[i]]

\* adjusted_pool = pool, without the copy: the write reaches the input
InputAliased(d, votes) == deduct_user_votes(d, votes)

\* the input dashboard after deduct_user_votes: adjusted_pool = pool.copy(),
\* so the write to adjusted_pool leaves the input pool as it was
InputAfterDeduct(d, votes) == d

\* the dashboard run_optimization is called with
Given == IF is_historical THEN deduct_user_votes(dash, previous_votes) ELSE dash

\* shadow/lib/optimizer.py, run_optimize on the current period: re_run and
\* previous_votes as run_optimization is given them
RunLive == ~is_historical /\ MainShadow

\* run_optimize on a past period: deduct_user_votes, then run_optimization
\* with re_run = False; previous_votes holds the user_votes
MainHistorical ==
    /\ pc = "main" /\ site = "shadow" /\ is_historical
    /\ P' = power
    /\ RW' = TopByRevenue(Base(deduct_user_votes(dash, previous_votes)))
    /\ dash' = InputAfterDeduct(dash, previous_votes)
    /\ pc' = "solve"
    /\ UNCHANGED <<site, power, already_cast, re_run, previous_votes,
                   AVOID_FOUNDATION, penalties, relay_votes, is_historical,
                   basic_scores, prec, args, running, saved, user_votes, outVars,
                   solverVars, blendVars, err>>

\* the guard of main(): no voting power or no pools
NothingToDo == Le(power, Zero) \/ Len(dash) = 0

\* algo/advanced_optimizer_variable.py, main
MainVariable ==
    /\ pc = "main" /\ site = "variable"
    /\ IF NothingToDo
       THEN pc' = "exit" /\ UNCHANGED <<RW, P>>
       ELSE pc' = "solve" /\ P' = power /\ RW' = Base(dash)
    /\ UNCHANGED <<inputVars, outVars, solverVars, blendVars, err>>

\* leftover ** exponent for the exponent 2 * alpha in {0, 1, 2}; 0 ** 0 is
\* decimal.InvalidOperation
PowDefined(x, n) == ~(x.m = 0 /\ n = 0)

Pow(x, n) == IF n = 0 THEN One ELSE IF n = 1 THEN x ELSE Mul(x, x)

Exponent(level) == (2 * level) \div 100

Leftover(score) == Max2(Sub(One, score), Zero)

\* the effective list without the avoidance factor
Unpenalized(d, level, scores) ==
    [i \in 1..Len(d) |-> [p |-> i, R |-> d[i].R, W |-> d[i].W]]

\* the effective (R, W) list: both scaled by (1 - score) ** (2 * alpha)
Effective(d, level, scores) ==
    [i \in 1..Len(d) |->
        LET factor == Pow(Leftover(scores[i]), Exponent(level))
        IN  [p |-> i, R |-> Mul(d[i].R, factor), W |-> Mul(d[i].W, factor)]]

\* algo/advanced_optimizer_with_avoidance.py, main
MainAvoidance ==
    /\ pc = "main" /\ site = "avoidance"
    /\ IF NothingToDo
       THEN pc' = "exit" /\ UNCHANGED <<RW, P, err>>
       ELSE IF \E i \in 1..Len(dash) :
                   ~PowDefined(Leftover(penalties[i]), Exponent(AVOID_FOUNDATION))
       THEN pc' = "raised" /\ err' = "InvalidOperation" /\ UNCHANGED <<RW, P>>
       ELSE /\ pc' = "solve" /\ P' = power
            /\ RW' = Effective(dash, AVOID_FOUNDATION, penalties)
            /\ UNCHANGED err
    /\ UNCHANGED <<inputVars, outVars, solverVars, blendVars>>

\* parsed.sort(key=voting_amount, reverse=True): stable, largest amount first
RECURSIVE InsertByAmount(_, _)
InsertByAmount(sorted, r) ==
    IF sorted = <<>> THEN <<r>>
    ELSE IF Lt(Head(sorted).va, r.va) THEN <<r>> \o sorted
    ELSE <<Head(sorted)>> \o InsertByAmount(Tail(sorted), r)

RECURSIVE SortByAmount(_, _, _)
SortByAmount(relays, i, acc) ==
    IF i > Len(relays) THEN acc
    ELSE SortByAmount(relays, i + 1, InsertByAmount(acc, relays[i]))

\* parsed[:top_k]
TopRelays(relays, top_k) ==
    LET s == SortByAmount(relays, 1, <<>>)
    IN  SubSeq(s, 1, IF Len(s) < top_k THEN Len(s) ELSE top_k)

\* penalties[pool] = penalties.get(pool, 0) + percent / 100, over a votes list
RECURSIVE AddVotes(_, _, _)
AddVotes(pen, votes, j) ==
    IF j > Len(votes) THEN pen
    ELSE LET q    == votes[j].pool
             frac == Div(Dec(votes[j].percent, 0), Dec(100, 0))
             old  == IF q \in DOMAIN pen THEN pen[q] ELSE Zero
         IN  AddVotes([x \in DOMAIN pen \cup {q} |->
                          IF x = q THEN Add(old, frac) ELSE pen[x]],
                      votes, j + 1)

RECURSIVE AddRelays(_, _, _)
AddRelays(pen, top, i) ==
    IF i > Len(top) THEN pen
    ELSE AddRelays(AddVotes(pen, top[i].votes, 1), top, i + 1)

\* if penalties[pool] > 1: penalties[pool] = Decimal(1)
ClampScore(x) == IF Lt(One, x) THEN One ELSE x

\* the dict of relay scores, keyed by pool
build_relay_penalties(relays, top_k) ==
    LET pen == AddRelays(<<>>, TopRelays(relays, top_k), 1)
    IN  [q \in DOMAIN pen |-> ClampScore(pen[q])]

\* penalties.get(pool_addr, Decimal(0))
ScoreOf(pen, i) == IF i \in DOMAIN pen THEN pen[i] ELSE Zero

\* algo/advanced_optimizer_with_avoidance.py, main, with the relay scores
\* computed from relay_votes
MainAvoidanceRelays ==
    /\ pc = "main" /\ site = "avoidance"
    /\ IF NothingToDo
       THEN pc' = "exit" /\ UNCHANGED <<RW, P, err, penalties>>
       ELSE LET pen    == build_relay_penalties(relay_votes, TOP_K)
                scores == [i \in 1..Len(dash) |-> ScoreOf(pen, i)]
            IN  /\ penalties' = scores
                /\ IF \E i \in 1..Len(dash) :
                          ~PowDefined(Leftover(scores[i]), Exponent(AVOID_FOUNDATION))
                   THEN pc' = "raised" /\ err' = "InvalidOperation" /\ UNCHANGED <<RW, P>>
                   ELSE /\ pc' = "solve" /\ P' = power
                        /\ RW' = Effective(dash, AVOID_FOUNDATION, scores)
                        /\ UNCHANGED err
    /\ UNCHANGED <<site, dash, power, already_cast, re_run, previous_votes,
                   AVOID_FOUNDATION, relay_votes, is_historical, basic_scores, prec,
                   args, running, saved, user_votes,
                   outVars, solverVars, blendVars>>

----------------------------------------------------------------------------
(* The solver's steps.                                                     *)

\* the active set is empty: all-zero allocation; else set up the bracket
Filter ==
    /\ pc = "solve"
    /\ IF Active(RW) = <<>>
       THEN /\ alloc' = Zeros(RW) /\ pc' = "solved"
            /\ UNCHANGED <<lo, hi>>
       ELSE /\ lo' = LAM_LO /\ hi' = LAM_HI /\ pc' = "bracket"
            /\ UNCHANGED alloc
    /\ UNCHANGED <<inputVars, outVars, RW, P, lam, k, it, blendVars, err>>

\* one pass of the bracketing loop
BracketStep ==
    /\ pc = "bracket" /\ k < MAX_DOUBLINGS
    /\ IF Bracketed(sum_delta(RW, hi), P)
       THEN pc' = "bisect" /\ UNCHANGED <<hi, k>>
       ELSE hi' = Mul(hi, Two) /\ k' = k + 1 /\ UNCHANGED pc
    /\ UNCHANGED <<inputVars, outVars, RW, P, lo, lam, it, alloc, blendVars, err>>

\* the loop's else branch: RuntimeError
BracketFail ==
    /\ pc = "bracket" /\ k = MAX_DOUBLINGS
    /\ pc' = "raised" /\ err' = "RuntimeError"
    /\ UNCHANGED <<inputVars, outVars, RW, P, solverVars, blendVars>>

\* the sum of the ends doubled, in place of halved
DoubledSum(l, h) == Mul(Add(l, h), Two)

\* mid = (lo + hi) / 2
Mid(l, h) == Div(Add(l, h), Two)

\* lo after the tolerance exit: the shadow copies set lam = mid and leave lo,
\* the other copies set lo = mid before the break
ExitLo(where, l, mid) == IF where = "shadow" THEN l ELSE mid

\* one pass of the bisection loop; on the tolerance exit run_optimization's
\* copy sets lam = mid, the other copies set lo = mid and then lam = lo
BisectStep ==
    /\ pc = "bisect" /\ it < MAX_ITERS
    /\ LET mid == Mid(lo, hi)
           s   == sum_delta(RW, mid)
       IN  IF Converged(s, P)
           THEN /\ lo' = ExitLo(site, lo, mid)
                /\ lam' = IF site = "shadow" THEN mid ELSE lo'
                /\ pc' = "closed"
                /\ UNCHANGED hi
           ELSE /\ IF Lt(P, s)
                   THEN lo' = mid /\ UNCHANGED hi
                   ELSE hi' = mid /\ UNCHANGED lo
                /\ UNCHANGED <<lam, pc>>
    /\ it' = it + 1
    /\ UNCHANGED <<inputVars, outVars, RW, P, k, alloc, blendVars, err>>

\* the iterations are used up: lam = lo
BisectExhaust ==
    /\ pc = "bisect" /\ it = MAX_ITERS
    /\ lam' = lo /\ pc' = "closed"
    /\ UNCHANGED <<inputVars, outVars, RW, P, lo, hi, k, it, alloc, blendVars, err>>

\* the closed form at the multiplier found
Finalize ==
    /\ pc = "closed"
    /\ alloc' = [i \in 1..Len(RW) |-> ClosedForm(RW[i], lam)]
    /\ pc' = "solved"
    /\ UNCHANGED <<inputVars, outVars, RW, P, lo, hi, lam, k, it, blendVars, err>>

----------------------------------------------------------------------------
(* After the solver.                                                       *)

\* xs[1] + ... + xs[n], added one after the other from the left
RECURSIVE SumSeq(_, _)
SumSeq(xs, n) ==
    IF n = 0 THEN Zero ELSE Add(SumSeq(xs, n - 1), xs[n])

\* sum(xs)
Total(xs) == SumSeq(xs, Len(xs))

TotalWeight(rw) == Total([i \in 1..Len(rw) |-> rw[i].W])

\* every position, as a loop without "if d <= 0: continue" goes through them
EmittedAll(xs) == 1..Len(xs)

\* the positions that are emitted: "if d <= 0: continue"
Emitted(xs) == {i \in 1..Len(xs) : Lt(Zero, xs[i])}

\* (d / total * 100) rounded half-up to an integer
PctOf(d, total) == IntegralHalfUp(Mul(Div(d, total), Dec(100, 0)))

\* the percentages of the emitted positions
Percents(xs) == [i \in Emitted(xs) |-> PctOf(xs[i], Total(xs))]

\* d / (locked + d), 0 when locked + d <= 0
Fraction(d, locked) ==
    IF Lt(Zero, Add(locked, d)) THEN Div(d, Add(locked, d)) ELSE Zero

\* exp_usd of one pool, in cents: revenue * fraction rounded half-up
ExpUsd(revenue, d, locked) == Cents(Mul(revenue, Fraction(d, locked)))

\* the integer sum of f over the positions from..to that are in todo
RECURSIVE SumBetween(_, _, _, _)
SumBetween(f, todo, from, to) ==
    IF from > to THEN 0
    ELSE IF from = to THEN (IF from \in todo THEN f[from] ELSE 0)
    ELSE LET mid == (from + to) \div 2
         IN  SumBetween(f, todo, from, mid) + SumBetween(f, todo, mid + 1, to)

\* the integer sum of f over the set of positions todo
SumOver(f, todo) ==
    IF todo = {} THEN 0
    ELSE SumBetween(f, todo, 1, CHOOSE x \in todo : \A y \in todo : y <= x)

\* emitting the percentages of an allocation, as run_optimization, the aero
\* script and the advanced optimizers do
EmitPercents ==
    /\ pc = "emit" /\ site # "basic"
    /\ pct' = Percents(alloc)
    /\ pc' = "emitted"
    /\ UNCHANGED <<inputVars, exp_usd, total_expected_usd, results, RW, P,
                   solverVars, blendVars, err>>

\* max(range(len(temp)), key=score): the first position of the largest score
IdxLargest(xs) ==
    CHOOSE i \in 1..Len(xs) :
        /\ \A j \in 1..Len(xs) : ~Lt(xs[i], xs[j])
        /\ \A j \in 1..(i - 1) : Lt(xs[j], xs[i])

\* temp[idx_largest][3] += 100 - sum_pct
AbsorbDrift(raw, xs) ==
    LET diff == 100 - SumOver(raw, DOMAIN raw)
    IN  IF diff = 0 THEN raw
        ELSE [raw EXCEPT ![IdxLargest(xs)] = @ + diff]

\* basic_optimizer.py, allocate_percentages(scores)
allocate_percentages(xs) ==
    LET total_score == Total(xs)
    IN  IF total_score = Zero THEN [i \in 1..Len(xs) |-> 0]
        ELSE AbsorbDrift([i \in 1..Len(xs) |-> PctOf(xs[i], total_score)], xs)

AllocatePercentages ==
    /\ pc = "emit" /\ site = "basic"
    /\ pct' = allocate_percentages(basic_scores)
    /\ pc' = "emitted"
    /\ UNCHANGED <<inputVars, exp_usd, total_expected_usd, results, RW, P,
                   solverVars, blendVars, err>>

\* aero and shadow: the outputs built from the solver's allocation; locked is
\* the weight of the dashboard the script was given, before any re-run
\* deduction
BuildOutputs ==
    /\ pc = "solved" /\ site \notin BlendSites
    /\ pct' = Percents(alloc)
    /\ LET exp == [i \in Emitted(alloc) |->
                      ExpUsd(Given[RW[i].p].R, alloc[i], Given[RW[i].p].W)]
       IN  /\ exp_usd' = exp
           /\ total_expected_usd' = SumOver(exp, DOMAIN exp)
    /\ pc' = "done"
    /\ UNCHANGED <<inputVars, results, RW, P, solverVars, blendVars, err>>

\* the share without the W > 0 test
SafeShareUnguarded(p, budget, total_W) == Div(Mul(budget, p.W), total_W)

\* one pool's share of compute_safe_allocation, total_W > 0
SafeShare(p, budget, total_W) ==
    IF Lt(Zero, p.W) THEN Div(Mul(budget, p.W), total_W) ELSE Zero

compute_safe_allocation(rw, budget) ==
    LET total_W == TotalWeight(rw)
    IN  IF Le(total_W, Zero) THEN Zeros(rw)
        ELSE [i \in 1..Len(rw) |-> SafeShare(rw[i], budget, total_W)]

SafeAllocation ==
    /\ pc = "solved" /\ site \in BlendSites
    /\ safe' = compute_safe_allocation(RW, P)
    /\ pc' = "blend"
    /\ UNCHANGED <<inputVars, outVars, RW, P, solverVars, comb, RISK_AVERSION, err>>

\* theta as the weight of the aggressive allocation
ThetaInverted(level) == Div(Dec(100 - level, 0), Dec(100, 0))

\* theta = RISK_AVERSION / 100
Theta(level) == Div(Dec(level, 0), Dec(100, 0))

\* advanced_optimizer_variable.py: (1 - theta) * agg + theta * safe
CombineVariable(th, a, sf) == Add(Mul(Sub(One, th), a), Mul(th, sf))

\* advanced_optimizer_with_avoidance.py: theta * safe + (1 - theta) * agg
CombineAvoidance(th, a, sf) == Add(Mul(th, sf), Mul(Sub(One, th), a))

\* the blend as the comment of advanced_optimizer_with_avoidance.py words it:
\* theta * agg + (1 - theta) * safe
CombineSwapped(where, th, a, sf) == Add(Mul(th, a), Mul(Sub(One, th), sf))

Combine(where, th, a, sf) ==
    IF where = "variable" THEN CombineVariable(th, a, sf)
    ELSE CombineAvoidance(th, a, sf)

\* the pool identifiers of the solver's result, entry by entry, had the
\* result been built from the active pools only
ActivePools(rw) == [i \in 1..Len(Active(rw)) |-> Active(rw)[i].p]

\* the pool identifiers of the solver's result, entry by entry: the early
\* return and the final loop both go through the pools given, active or not
AllocationPools(rw) == [i \in 1..Len(rw) |-> rw[i].p]

\* the pool identifiers of compute_safe_allocation's result, entry by entry
SafePools(rw) == [i \in 1..Len(rw) |-> rw[i].p]

\* zip(agg_alloc, safe_alloc) pairs the entries by position;
\* advanced_optimizer_with_avoidance.py asserts addr_a == addr_s on each pair
Blend ==
    /\ pc = "blend"
    /\ IF site = "avoidance" /\ AllocationPools(RW) # SafePools(RW)
       THEN /\ pc' = "raised" /\ err' = "AssertionError"
            /\ UNCHANGED <<RISK_AVERSION, comb, pct>>
       ELSE /\ \E level \in RiskLevels :
                /\ RISK_AVERSION' = level
                /\ comb' = [i \in 1..Len(RW) |->
                               Combine(site, Theta(level), alloc[i], safe[i])]
                /\ pct' = IF Total(comb') = Zero THEN <<>> ELSE Percents(comb')
            /\ pc' = "done"
            /\ UNCHANGED err
    /\ UNCHANGED <<inputVars, exp_usd, total_expected_usd, results, RW, P,
                   solverVars, safe>>

----------------------------------------------------------------------------

Init ==
    /\ prec = Prec
    /\ site \in Sites
    /\ dash \in PoolLists
    /\ power \in Budgets
    /\ already_cast \in (IF site = "aero" THEN Casts ELSE {Zero})
    /\ re_run = FALSE
    /\ previous_votes \in (IF re_run THEN [1..Len(dash) -> VoteRecs]
                           ELSE {[i \in 1..Len(dash) |-> NoVote]})
    /\ AVOID_FOUNDATION \in (IF site = "avoidance" THEN AvoidLevels ELSE {0})
    /\ penalties \in (IF site = "avoidance" THEN [1..Len(dash) -> Scores]
                      ELSE {[i \in 1..Len(dash) |-> Zero]})
    /\ relay_votes = <<>>
    /\ RW = <<>> /\ P = Zero /\ pc = "main"
    /\ lo = Zero /\ hi = Zero /\ lam = Zero /\ k = 0 /\ it = 0
    /\ alloc = <<>> /\ safe = <<>> /\ comb = <<>>
    /\ is_historical = FALSE /\ basic_scores = <<>>
    /\ pct = <<>> /\ exp_usd = <<>> /\ total_expected_usd = 0 /\ results = <<>>
    /\ args = <<>> /\ running = 0 /\ saved = <<>>
    /\ user_votes = NoUserVotes
    /\ RISK_AVERSION = 0 /\ err = "none"

Next ==
    \/ MainAero
    \/ MainShadow
    \/ MainVariable
    \/ MainAvoidance
    \/ Filter
    \/ BracketStep
    \/ BracketFail
    \/ BisectStep
    \/ BisectExhaust
    \/ Finalize
    \/ BuildOutputs
    \/ SafeAllocation
    \/ Blend

Spec == Init /\ [][Next]_vars

\* run_optimize of shadow/lib/optimizer.py: the current period, first run or
\* re-run, and a past period.
InitShadow ==
    /\ prec = Prec
    /\ site = "shadow"
    /\ dash \in ShadowLists
    /\ power \in {Zero, Dec(20, 0)}
    /\ already_cast = Zero
    /\ is_historical \in BOOLEAN
    /\ re_run \in (IF is_historical THEN {FALSE} ELSE BOOLEAN)
    /\ previous_votes \in [1..Len(dash) -> VoteRecs]
    /\ AVOID_FOUNDATION = 0
    /\ penalties = [i \in 1..Len(dash) |-> Zero]
    /\ relay_votes = <<>> /\ basic_scores = <<>>
    /\ RW = <<>> /\ P = Zero /\ pc = "main"
    /\ lo = Zero /\ hi = Zero /\ lam = Zero /\ k = 0 /\ it = 0
    /\ alloc = <<>> /\ safe = <<>> /\ comb = <<>>
    /\ pct = <<>> /\ exp_usd = <<>> /\ total_expected_usd = 0 /\ results = <<>>
    /\ args = <<>> /\ running = 0 /\ saved = <<>>
    /\ user_votes = NoUserVotes
    /\ RISK_AVERSION = 0 /\ err = "none"

NextShadow ==
    \/ RunLive
    \/ MainHistorical
    \/ Filter
    \/ BracketStep
    \/ BracketFail
    \/ BisectStep
    \/ BisectExhaust
    \/ Finalize
    \/ BuildOutputs

SpecShadow == InitShadow /\ [][NextShadow]_vars

\* The percentage emitters on their own: an allocation, or the scores of the
\* basic optimizer, is drawn and the percentages are computed from it.
InitPercent ==
    /\ prec = Prec
    /\ site \in {"shadow", "basic"}
    /\ alloc \in (IF site = "basic" THEN {<<>>} ELSE AmountLists)
    /\ basic_scores \in (IF site = "basic" THEN AmountLists \cup {EqualScores}
                          ELSE {<<>>})
    /\ dash = <<>> /\ power = Zero /\ already_cast = Zero
    /\ is_historical = FALSE /\ re_run = FALSE /\ previous_votes = <<>>
    /\ AVOID_FOUNDATION = 0 /\ penalties = <<>> /\ relay_votes = <<>>
    /\ RW = <<>> /\ P = Zero /\ pc = "emit"
    /\ lo = Zero /\ hi = Zero /\ lam = Zero /\ k = 0 /\ it = 0
    /\ safe = <<>> /\ comb = <<>>
    /\ pct = <<>> /\ exp_usd = <<>> /\ total_expected_usd = 0 /\ results = <<>>
    /\ args = <<>> /\ running = 0 /\ saved = <<>>
    /\ user_votes = NoUserVotes
    /\ RISK_AVERSION = 0 /\ err = "none"

NextPercent ==
    \/ EmitPercents
    \/ AllocatePercentages

SpecPercent == InitPercent /\ [][NextPercent]_vars

\* The avoidance step of advanced_optimizer_with_avoidance.py on its own:
\* relay votes, avoidance level and dashboard are drawn, main() is run up to
\* the call of the solver.
InitRelays ==
    /\ prec = Prec
    /\ site = "avoidance"
    /\ dash \in ValidDashes
    /\ power \in {Zero, Dec(20, 0)}
    /\ already_cast = Zero
    /\ re_run = FALSE
    /\ previous_votes = [i \in 1..Len(dash) |-> NoVote]
    /\ AVOID_FOUNDATION \in AvoidLevelsAll
    /\ relay_votes \in RelayLists
    /\ penalties = [i \in 1..Len(dash) |-> Zero]
    /\ RW = <<>> /\ P = Zero /\ pc = "main"
    /\ lo = Zero /\ hi = Zero /\ lam = Zero /\ k = 0 /\ it = 0
    /\ alloc = <<>> /\ safe = <<>> /\ comb = <<>>
    /\ is_historical = FALSE /\ basic_scores = <<>>
    /\ pct = <<>> /\ exp_usd = <<>> /\ total_expected_usd = 0 /\ results = <<>>
    /\ args = <<>> /\ running = 0 /\ saved = <<>>
    /\ user_votes = NoUserVotes
    /\ RISK_AVERSION = 0 /\ err = "none"

SpecRelays == InitRelays /\ [][MainAvoidanceRelays]_vars

\* The solver called more than once in one process: equal_marginal of
\* shadow/lib/optimizer.py is called on the same pools and budget a first and
\* a second time, and lib/analytics.py may be imported before, between or
\* after the calls, as shadow_manager.py imports it next to lib/optimizer.py.
\* Largest number of calls of the solver in one process.
MaxCalls == 2

\* getcontext().prec = 28 of lib/analytics.py, against the 50 of
\* lib/optimizer.py: a precision below the solver's own
AnalyticsPrec == Prec - 1

\* a Decimal argument as the operations of the current context read it: the
\* value is exact, whatever precision it was computed or written with
AsDecimal(x) == Round(Sgn(x.m), Abs(x.m), x.e, FALSE)

\* equal_marginal(pools, P) is entered: its locals are fresh
CallSolver ==
    /\ pc = "call" /\ Len(results) < MaxCalls
    /\ RW' = [i \in 1..Len(dash) |->
                 [p |-> i, R |-> AsDecimal(dash[i].R), W |-> AsDecimal(dash[i].W)]]
    /\ P' = AsDecimal(power)
    /\ lo' = Zero /\ hi' = Zero /\ lam' = Zero /\ k' = 0 /\ it' = 0
    /\ alloc' = <<>>
    /\ pc' = "solve"
    /\ UNCHANGED <<inputVars, pct, exp_usd, total_expected_usd, results,
                   blendVars, err>>

\* equal_marginal returns its allocation to the caller
ReturnAllocation ==
    /\ pc = "solved"
    /\ results' = Append(results, alloc)
    /\ pc' = "call"
    /\ UNCHANGED <<inputVars, pct, exp_usd, total_expected_usd, RW, P,
                   solverVars, blendVars, err>>

\* import of lib/analytics.py: its module body sets the precision of the
\* process's decimal context; a second import runs nothing
ImportAnalytics ==
    /\ pc = "call" /\ prec # AnalyticsPrec
    /\ prec' = AnalyticsPrec
    /\ UNCHANGED <<site, dash, power, already_cast, re_run, previous_votes,
                   AVOID_FOUNDATION, penalties, relay_votes, is_historical,
                   basic_scores, args, running, saved, user_votes, outVars, RW, P,
                   pc,
                   solverVars, blendVars, err>>

\* the pools and budgets of the repeated call: every value is written with
\* fewer digits than either precision keeps
CallLists == UNION {[1..n -> {PoolRec(100, 10), PoolRec(50, 10), PoolRec(100, 0)}] :
                       n \in 0..MaxPools}

InitCalls ==
    /\ prec = Prec
    /\ site = "shadow"
    /\ dash \in CallLists
    /\ power \in Budgets
    /\ already_cast = Zero
    /\ re_run = FALSE
    /\ previous_votes = [i \in 1..Len(dash) |-> NoVote]
    /\ AVOID_FOUNDATION = 0
    /\ penalties = [i \in 1..Len(dash) |-> Zero]
    /\ relay_votes = <<>>
    /\ RW = <<>> /\ P = Zero /\ pc = "call"
    /\ lo = Zero /\ hi = Zero /\ lam = Zero /\ k = 0 /\ it = 0
    /\ alloc = <<>> /\ safe = <<>> /\ comb = <<>>
    /\ is_historical = FALSE /\ basic_scores = <<>>
    /\ pct = <<>> /\ exp_usd = <<>> /\ total_expected_usd = 0 /\ results = <<>>
    /\ args = <<>> /\ running = 0 /\ saved = <<>>
    /\ user_votes = NoUserVotes
    /\ RISK_AVERSION = 0 /\ err = "none"

NextCalls ==
    \/ CallSolver
    \/ ImportAnalytics
    \/ Filter
    \/ BracketStep
    \/ BracketFail
    \/ BisectStep
    \/ BisectExhaust
    \/ Finalize
    \/ ReturnAllocation

SpecCalls == InitCalls /\ [][NextCalls]_vars


\* The solver called from several threads of one process.  The main thread,
\* which imported lib/optimizer.py, calls equal_marginal and then starts the
\* worker threads, each of which calls it with its own copy of the same pools
\* and budget.  The interpreter runs one thread at a time and can switch
\* between two steps of the running thread.
\* Largest number of worker threads.
MaxThreads == 2

Workers == 1..MaxThreads

\* the precision of a thread's decimal context when nothing has set it:
\* getcontext() is per thread, and "getcontext().prec = 50", run by the import
\* in the main thread, sets the main thread's context only
DefaultPrec == Prec - 1

\* the locals and the decimal context of the running thread
Locals ==
    [pc |-> pc, RW |-> RW, P |-> P, lo |-> lo, hi |-> hi, lam |-> lam,
     k |-> k, it |-> it, alloc |-> alloc, prec |-> prec]

\* a thread that has not run yet
FreshThread ==
    [pc |-> "call", RW |-> <<>>, P |-> Zero, lo |-> Zero, hi |-> Zero,
     lam |-> Zero, k |-> 0, it |-> 0, alloc |-> <<>>, prec |-> DefaultPrec]

\* the interpreter hands over to worker thread t.  The main thread hands over
\* after its own sequential call: it starts the workers and waits in join().
Switch(t) ==
    /\ t \in DOMAIN saved
    /\ running = 0 => (pc = "call" /\ Len(results) >= 1)
    /\ saved' = [u \in (DOMAIN saved \ {t}) \cup {running} |->
                    IF u = running THEN Locals ELSE saved[u]]
    /\ running' = t
    /\ pc' = saved[t].pc /\ RW' = saved[t].RW /\ P' = saved[t].P
    /\ lo' = saved[t].lo /\ hi' = saved[t].hi /\ lam' = saved[t].lam
    /\ k' = saved[t].k /\ it' = saved[t].it /\ alloc' = saved[t].alloc
    /\ prec' = saved[t].prec
    /\ UNCHANGED <<site, dash, power, already_cast, re_run, previous_votes,
                   AVOID_FOUNDATION, penalties, relay_votes, is_historical,
                   basic_scores, args, user_votes, outVars, blendVars, err>>

SwitchThread == \E t \in Workers : Switch(t)

\* the pools of the concurrent calls; the budget is positive, so that the
\* bracketing loop ends before its last pass
ThreadLists == {<<PoolRec(100, 10), PoolRec(50, 10)>>}

InitThreads ==
    /\ prec = Prec
    /\ site = "shadow"
    /\ dash \in ThreadLists
    /\ power = Dec(20, 0)
    /\ already_cast = Zero
    /\ re_run = FALSE
    /\ previous_votes = [i \in 1..Len(dash) |-> NoVote]
    /\ AVOID_FOUNDATION = 0
    /\ penalties = [i \in 1..Len(dash) |-> Zero]
    /\ relay_votes = <<>>
    /\ RW = <<>> /\ P = Zero /\ pc = "call"
    /\ lo = Zero /\ hi = Zero /\ lam = Zero /\ k = 0 /\ it = 0
    /\ alloc = <<>> /\ safe = <<>> /\ comb = <<>>
    /\ is_historical = FALSE /\ basic_scores = <<>>
    /\ pct = <<>> /\ exp_usd = <<>> /\ total_expected_usd = 0 /\ results = <<>>
    /\ args = <<>> /\ running = 0 /\ saved = [t \in Workers |-> FreshThread]
    /\ user_votes = NoUserVotes
    /\ RISK_AVERSION = 0 /\ err = "none"

NextThreads ==
    \/ CallSolver
    \/ SwitchThread
    \/ Filter
    \/ BracketStep
    \/ BisectStep
    \/ BisectExhaust
    \/ Finalize
    \/ ReturnAllocation

SpecThreads == InitThreads /\ [][NextThreads]_vars

\* Pairs of calls in one process, to compare their results: the solver on
\* two lists that differ in one revenue, two copies of the solver on the same
\* list, and run_optimization as a re-run and as a first run.  A call is
\* [fn, site, pools, P, re_run, votes]: the function called, the script whose
\* copy of the solver runs, and the arguments.
SolverCall(where, pools, budget) ==
    [fn |-> "equal_marginal", site |-> where, pools |-> pools, P |-> budget,
     re_run |-> FALSE, votes |-> [i \in 1..Len(pools) |-> NoVote]]

OptimizationCall(pools, budget, rerun, votes) ==
    [fn |-> "run_optimization", site |-> "shadow", pools |-> pools, P |-> budget,
     re_run |-> rerun, votes |-> votes]

\* the next call is made: the locals of the solver are fresh
CallWith ==
    /\ pc = "call" /\ Len(results) < Len(args)
    /\ LET a == args[Len(results) + 1]
       IN  /\ site' = a.site
           /\ P' = a.P
           /\ RW' = IF a.fn = "run_optimization"
                    THEN SolverInput(a.pools, a.re_run, a.votes)
                    ELSE Base(a.pools)
    /\ lo' = Zero /\ hi' = Zero /\ lam' = Zero /\ k' = 0 /\ it' = 0
    /\ alloc' = <<>>
    /\ pc' = "solve"
    /\ UNCHANGED <<dash, power, already_cast, re_run, previous_votes,
                   AVOID_FOUNDATION, penalties, relay_votes, is_historical,
                   basic_scores, prec, args, running, saved, user_votes, outVars,
                   blendVars, err>>

\* pools with revenue and weight, without weight, without revenue
PairRecs == {PoolRec(100, 10), PoolRec(50, 10), PoolRec(100, 0), PoolRec(0, 10)}

PairLists == UNION {[1..n -> PairRecs] : n \in 1..MaxPools}

\* the pools of the lists in which a revenue is raised
RaiseLists ==
    UNION {[1..n -> {PoolRec(145, 48), PoolRec(50, 10), PoolRec(0, 10)}] :
              n \in 1..MaxPools}

\* the revenues a pool's revenue is raised to
RaisedRevenues == {Dec(100, 0), Dec(150, 0)}

\* the solver on a list and on the same list with one revenue raised
RaisePairs ==
    {<<SolverCall("shadow", d, Dec(20, 0)),
       SolverCall("shadow", [d EXCEPT ![i].R = r], Dec(20, 0))>> :
        <<d, i, r>> \in {x \in RaiseLists \X (1..MaxPools) \X RaisedRevenues :
                            x[2] <= Len(x[1]) /\ Lt(x[1][x[2]].R, x[3])}}

\* the copies of the solver: the one of shadow/lib and shadow/algo against
\* the one of the aero script and of the advanced optimizers
CopyPairs ==
    {<<SolverCall("shadow", d, b), SolverCall(w, d, b)>> :
        <<d, b, w>> \in (PairLists \cup {<<PoolRec(100, -1)>>, <<PoolRec(-1, 0)>>})
                          \X Budgets \X (Sites \ {"shadow"})}

\* run_optimization as a re-run on the dashboard that counts the caller's
\* prior votes, and as a first run on the dashboard without them
WithVotes(d, votes) ==
    [i \in 1..Len(d) |-> [R |-> d[i].R, W |-> Add(d[i].W, votes[i].w)]]

RerunPairs ==
    {<<OptimizationCall(WithVotes(x[1], x[2]), Dec(20, 0), TRUE, x[2]),
       OptimizationCall(x[1], Dec(20, 0), FALSE, [i \in 1..Len(x[1]) |-> NoVote])>> :
        x \in {y \in PairLists \X UNION {[1..n -> VoteRecs] : n \in 1..MaxPools} :
                  Len(y[1]) = Len(y[2])}}

InitPairs ==
    /\ prec = Prec
    /\ args \in RaisePairs \cup CopyPairs \cup RerunPairs
    /\ site = "shadow"
    /\ dash = <<>> /\ power = Zero /\ already_cast = Zero
    /\ re_run = FALSE /\ previous_votes = <<>>
    /\ AVOID_FOUNDATION = 0 /\ penalties = <<>> /\ relay_votes = <<>>
    /\ RW = <<>> /\ P = Zero /\ pc = "call"
    /\ lo = Zero /\ hi = Zero /\ lam = Zero /\ k = 0 /\ it = 0
    /\ alloc = <<>> /\ safe = <<>> /\ comb = <<>>
    /\ is_historical = FALSE /\ basic_scores = <<>>
    /\ pct = <<>> /\ exp_usd = <<>> /\ total_expected_usd = 0 /\ results = <<>>
    /\ running = 0 /\ saved = <<>>
    /\ user_votes = NoUserVotes
    /\ RISK_AVERSION = 0 /\ err = "none"

NextPairs ==
    \/ CallWith
    \/ Filter
    \/ BracketStep
    \/ BracketFail
    \/ BisectStep
    \/ BisectExhaust
    \/ Finalize
    \/ ReturnAllocation

SpecPairs == InitPairs /\ [][NextPairs]_vars

\* One call of the solver, for what every call does: any list, any budget,
\* either variant of the bisection loop.
SingleCalls ==
    {<<SolverCall(w, d, b)>> :
        <<d, b, w>> \in (PairLists \cup {<<PoolRec(100, -1)>>, <<PoolRec(-1, 0)>>})
                          \X Budgets \X {"shadow", "aero"}}

InitSolver ==
    /\ prec = Prec
    /\ args \in SingleCalls
    /\ site = "shadow"
    /\ dash = <<>> /\ power = Zero /\ already_cast = Zero
    /\ re_run = FALSE /\ previous_votes = <<>>
    /\ AVOID_FOUNDATION = 0 /\ penalties = <<>> /\ relay_votes = <<>>
    /\ RW = <<>> /\ P = Zero /\ pc = "call"
    /\ lo = Zero /\ hi = Zero /\ lam = Zero /\ k = 0 /\ it = 0
    /\ alloc = <<>> /\ safe = <<>> /\ comb = <<>>
    /\ is_historical = FALSE /\ basic_scores = <<>>
    /\ pct = <<>> /\ exp_usd = <<>> /\ total_expected_usd = 0 /\ results = <<>>
    /\ running = 0 /\ saved = <<>>
    /\ user_votes = NoUserVotes
    /\ RISK_AVERSION = 0 /\ err = "none"

SpecSolver == InitSolver /\ [][NextPairs]_vars

\* shadow_manager.py, command "optimize": the imports of its line 4 run one
\* after the other in a fresh interpreter, then main() calls
\* optimizer.run_optimize(period, save, is_historical).
\* the variables run_optimize and the imports leave alone
managerVars == <<site, dash, power, already_cast, AVOID_FOUNDATION, penalties,
                 relay_votes, is_historical, basic_scores, args, running, saved,
                 user_votes>>

\* import of lib/fetch_votes.py: it imports Decimal only and leaves the
\* decimal context as it is
ImportFetchVotes ==
    /\ pc = "import_fetch_votes"
    /\ pc' = "import_optimizer"
    /\ UNCHANGED <<inputVars, outVars, RW, P, solverVars, blendVars, err>>

\* import of lib/optimizer.py: getcontext().prec = 50
ImportOptimizer ==
    /\ pc = "import_optimizer"
    /\ prec' = Prec
    /\ pc' = "import_analytics"
    /\ UNCHANGED <<managerVars, re_run, previous_votes, outVars, RW, P,
                   solverVars, blendVars, err>>

\* import of lib/analytics.py, the last of the three: getcontext().prec = 28
ImportAnalyticsLast ==
    /\ pc = "import_analytics"
    /\ prec' = AnalyticsPrec
    /\ pc' = "run_optimize"
    /\ UNCHANGED <<managerVars, re_run, previous_votes, outVars, RW, P,
                   solverVars, blendVars, err>>

\* get_user_votes returned at least one vote: current_votes is a dict and
\* its 'votes' list is not empty
HasVotes(uv) ==
    uv.ok /\ (uv.other \/ \E i \in DOMAIN uv.votes : uv.votes[i].has)

\* the previous_votes map run_optimize builds, per dashboard pool
VotesMap(uv, d) ==
    IF HasVotes(uv) THEN uv.votes ELSE [i \in 1..Len(d) |-> NoVote]

\* run_optimize on the current period: re_run and previous_votes are set
\* from get_user_votes, then run_optimization is called with them
RunOptimizeLive ==
    /\ pc = "run_optimize" /\ ~is_historical
    /\ re_run' = HasVotes(user_votes)
    /\ previous_votes' = VotesMap(user_votes, dash)
    /\ pc' = "main"
    /\ UNCHANGED <<managerVars, prec, outVars, RW, P, solverVars, blendVars,
                   err>>

\* run_optimize on a past period, get_user_votes returned a dict: the votes
\* go to deduct_user_votes, and run_optimization is called with re_run False
RunOptimizeHistorical ==
    /\ pc = "run_optimize" /\ is_historical /\ user_votes.ok
    /\ previous_votes' = user_votes.votes
    /\ pc' = "main"
    /\ UNCHANGED <<managerVars, prec, re_run, outVars, RW, P, solverVars,
                   blendVars, err>>

\* run_optimize on a past period, get_user_votes returned None: run_optimize
\* logs the failure and returns None
HistoricalWithoutVotes ==
    /\ pc = "run_optimize" /\ is_historical /\ ~user_votes.ok
    /\ pc' = "none_returned"
    /\ UNCHANGED <<inputVars, outVars, RW, P, solverVars, blendVars, err>>

\* the dashboards of the manager's runs
ManagerLists ==
    UNION {[1..n -> {PoolRec(100, 30), PoolRec(50, 10)}] : n \in 0..MaxPools}

\* what get_user_votes can return for dashboard d: None, or the votes on the
\* dashboard's pools and whether there are votes on other pools
UserVotes(d) ==
    {NoUserVotes} \cup
    [ok : {TRUE}, votes : [1..Len(d) -> VoteRecs], other : BOOLEAN]

InitManager ==
    /\ prec = DefaultPrec
    /\ site = "shadow"
    /\ dash \in ManagerLists
    /\ power \in {Zero, Dec(20, 0)}
    /\ already_cast = Zero
    /\ is_historical \in BOOLEAN
    /\ re_run = FALSE
    /\ previous_votes = [i \in 1..Len(dash) |-> NoVote]
    /\ user_votes \in UserVotes(dash)
    /\ AVOID_FOUNDATION = 0
    /\ penalties = [i \in 1..Len(dash) |-> Zero]
    /\ relay_votes = <<>> /\ basic_scores = <<>>
    /\ RW = <<>> /\ P = Zero /\ pc = "import_fetch_votes"
    /\ lo = Zero /\ hi = Zero /\ lam = Zero /\ k = 0 /\ it = 0
    /\ alloc = <<>> /\ safe = <<>> /\ comb = <<>>
    /\ pct = <<>> /\ exp_usd = <<>> /\ total_expected_usd = 0 /\ results = <<>>
    /\ args = <<>> /\ running = 0 /\ saved = <<>>
    /\ RISK_AVERSION = 0 /\ err = "none"

NextManager ==
    \/ ImportFetchVotes
    \/ ImportOptimizer
    \/ ImportAnalyticsLast
    \/ RunOptimizeLive
    \/ RunOptimizeHistorical
    \/ HistoricalWithoutVotes
    \/ RunLive
    \/ MainHistorical
    \/ Filter
    \/ BracketStep
    \/ BracketFail
    \/ BisectStep
    \/ BisectExhaust
    \/ Finalize
    \/ BuildOutputs

SpecManager == InitManager /\ [][NextManager]_vars

\* The copies of the solver, each run by its own program in a process of its
\* own, on the same pools and budget.
\* the precision in force when the program of a copy calls it:
\* shadow/lib/optimizer.py is run by shadow_manager.py, whose last import
\* sets the precision of lib/analytics.py; the other copies are scripts that
\* set their own and import nothing that changes it
ProgramPrec(where) == IF where = "shadow" THEN AnalyticsPrec ELSE Prec

\* the program of the next copy is started and calls its solver
RunProgram ==
    /\ pc = "call" /\ Len(results) < Len(args)
    /\ LET a == args[Len(results) + 1]
       IN  /\ site' = a.site
           /\ prec' = ProgramPrec(a.site)
           /\ P' = a.P
           /\ RW' = Base(a.pools)
    /\ lo' = Zero /\ hi' = Zero /\ lam' = Zero /\ k' = 0 /\ it' = 0
    /\ alloc' = <<>>
    /\ pc' = "solve"
    /\ UNCHANGED <<dash, power, already_cast, re_run, previous_votes,
                   AVOID_FOUNDATION, penalties, relay_votes, is_historical,
                   basic_scores, args, running, saved, user_votes, outVars,
                   blendVars, err>>

InitCopies ==
    /\ prec = DefaultPrec
    /\ args \in CopyPairs
    /\ site = "shadow"
    /\ dash = <<>> /\ power = Zero
    /\ already_cast = Zero
    /\ re_run = FALSE
    /\ previous_votes = <<>>
    /\ AVOID_FOUNDATION = 0
    /\ penalties = <<>>
    /\ relay_votes = <<>> /\ basic_scores = <<>>
    /\ RW = <<>> /\ P = Zero /\ pc = "call"
    /\ lo = Zero /\ hi = Zero /\ lam = Zero /\ k = 0 /\ it = 0
    /\ alloc = <<>> /\ safe = <<>> /\ comb = <<>>
    /\ is_historical = FALSE
    /\ pct = <<>> /\ exp_usd = <<>> /\ total_expected_usd = 0 /\ results = <<>>
    /\ running = 0 /\ saved = <<>>
    /\ user_votes = NoUserVotes
    /\ RISK_AVERSION = 0 /\ err = "none"

NextCopies ==
    \/ RunProgram
    \/ Filter
    \/ BracketStep
    \/ BracketFail
    \/ BisectStep
    \/ BisectExhaust
    \/ Finalize
    \/ ReturnAllocation

SpecCopies == InitCopies /\ [][NextCopies]_vars

----------------------------------------------------------------------------
(* Vocabulary of the properties.                                           *)

\* the solver has returned: alloc is its result
Returned == pc \in {"solved", "blend", "done"}

\* the solver was called
Called == pc \in {"solve", "bracket", "bisect", "closed"} \/ Returned
              \/ err = "RuntimeError"

\* a pool eligible for allocation, by the glossary: R > 0 and W >= 0
Eligible(p) == p.R.m > 0 /\ p.W.m >= 0

SomeEligible == \E i \in 1..Len(RW) : Eligible(RW[i])

Positive(x) == x.m > 0

\* |x - y| <= rtol * |y|
Close(x, y, rtol) == Le(DAbs(Sub(x, y)), Mul(rtol, DAbs(y)))

\* what the run finally hands on: the blend where there is one
Final == IF site \in BlendSites THEN comb ELSE alloc

\* the relative tolerance of the budget identity
SUM_RTOL == Dec(1, -9)

\* the granularity of the allocations the optimum is compared with
GridSteps == 2

\* the allocations j_i * P / GridSteps over the eligible pools that use up P
Grid ==
    {g \in [1..Len(RW) -> 0..GridSteps] :
        /\ \A i \in 1..Len(RW) : ~Eligible(RW[i]) => g[i] = 0
        /\ Total([i \in 1..Len(RW) |-> Dec(g[i], 0)]) = Dec(GridSteps, 0)}

GridAllocation(g) ==
    [i \in 1..Len(RW) |-> Div(Mul(P, Dec(g[i], 0)), Dec(GridSteps, 0))]

\* sum_i R_i * D_i / (W_i + D_i), a pool without allocation earning nothing
Objective(d) ==
    Total([i \in 1..Len(RW) |->
        IF Positive(d[i]) /\ Positive(Add(RW[i].W, d[i]))
        THEN Div(Mul(RW[i].R, d[i]), Add(RW[i].W, d[i]))
        ELSE Zero])

\* the slack granted to the solver when objectives are compared
OBJ_RTOL == Dec(1, -2)

RECURSIVE Doubled(_, _)
Doubled(h, n) == IF n = 0 THEN h ELSE Doubled(Mul(h, Two), n - 1)

\* S(h), S(2h), ..., n values, are all >= budget
RECURSIVE NoneBelow(_, _, _, _)
NoneBelow(rw, budget, h, n) ==
    IF n = 0 THEN TRUE
    ELSE ~Lt(sum_delta(rw, h), budget) /\ NoneBelow(rw, budget, Mul(h, Two), n - 1)

----------------------------------------------------------------------------
(* The claims.                                                             *)

\* C1: with budget P > 0 and at least one active pool (W = 0 included) the
\* returned allocations sum to P within 1e-9 relative tolerance.
\* Refuted by the code: an active pool with W = 0 contributes nothing to
\* sum_delta and gets 0 from the closed form, so a list whose active pools
\* all have W = 0 is returned all-zero.
C1_SumEqualsBudget ==
    (Returned /\ Positive(P) /\ SomeEligible) => Close(Total(alloc), P, SUM_RTOL)

\* C2: with P > 0 and at least one active pool no feasible allocation of the
\* grid has a larger objective sum_i R_i*D_i/(W_i+D_i) than the returned one.
\* Refuted by the code: an active pool with W = 0 always gets 0, although any
\* positive allocation would earn its whole revenue.
C2_MaximizesObjective ==
    (Returned /\ Positive(P) /\ SomeEligible) =>
        \A g \in Grid :
            Le(Objective(GridAllocation(g)),
               Mul(Objective(alloc), Add(One, OBJ_RTOL)))

\* C3: with budget 0 the solver returns 0 for every pool and raises no error,
\* whether or not active pools exist.
\* Refuted by the code: sum_delta(hi) < 0 never holds, so with an active
\* pool the bracketing loop runs out and RuntimeError is raised.
C3_ZeroBudgetAllZero ==
    (Called /\ P = Zero) =>
        /\ err = "none"
        /\ Returned => \A i \in 1..Len(alloc) : alloc[i] = Zero

\* C4: when the budget exceeds the total reachable at lambda = 1e-30, the
\* solver fails; it never returns an allocation whose sum is below P.
\* Refuted by the code: bisection then moves hi down 100 times and the
\* closed form is evaluated at lam = lo = 1e-30.
C4_UnreachableBudgetFails ==
    (Called /\ SomeEligible /\ Lt(sum_delta(RW, LAM_LO), P)) => ~Returned

\* C5: the solver raises RuntimeError exactly when S(hi) >= P for all 200
\* trial values hi = 1, 2, 4, ..., and then returns nothing; otherwise
\* bracketing ends at the first trial value with S(hi) < P.
C5_BracketingOutcome ==
    /\ err = "RuntimeError" =>
        /\ pc = "raised" /\ alloc = <<>>
        /\ NoneBelow(RW, P, LAM_HI, MAX_DOUBLINGS)
    /\ (pc \in {"bisect", "closed"} \/ (Returned /\ SomeEligible)) =>
        /\ k < MAX_DOUBLINGS
        /\ Lt(sum_delta(RW, Doubled(LAM_HI, k)), P)
        /\ NoneBelow(RW, P, LAM_HI, k)
        /\ (pc = "bisect" /\ it = 0) => hi = Doubled(LAM_HI, k)

C5_Witness == err = "RuntimeError" /\ k = MAX_DOUBLINGS /\ SomeEligible

\* C7: with no active pool the solver returns one zero per input pool, for
\* every budget, without bracketing, bisecting or raising.
C7_NoActivePoolAllZero ==
    (Called /\ ~SomeEligible) =>
        /\ pc \in {"solve", "solved", "blend", "done"}
        /\ err = "none" /\ k = 0 /\ it = 0
        /\ Returned => alloc = [i \in 1..Len(RW) |-> Zero]

C7_Witness ==
    /\ Returned /\ Len(RW) = 1 /\ RW[1].R = Zero /\ Positive(P)
    /\ alloc = <<Zero>>

\* C6: in every final allocation, solver output and blend alike, a pool with
\* R <= 0 or W < 0 has allocation 0.
\* The claim as made; the safe share of a pool with R = 0 and W > 0 refutes it.
C6_InactiveGetsNothing ==
    /\ Returned => \A i \in 1..Len(RW) : ~Eligible(RW[i]) => alloc[i] = Zero
    /\ pc = "done" => \A i \in 1..Len(RW) : ~Eligible(RW[i]) => Final[i] = Zero

\* C6, amended: the solver gives a positive allocation only to a pool with
\* R > 0 and W >= 0; the blend gives one only to such a pool or, with
\* RISK_AVERSION > 0, to a pool with W > 0 (its safe share).
C6_PositiveOnlyIfEligibleOrSafe ==
    /\ Returned => \A i \in 1..Len(RW) : Positive(alloc[i]) => Eligible(RW[i])
    /\ (pc = "done" /\ site \in BlendSites) =>
          \A i \in 1..Len(RW) :
              Positive(comb[i]) =>
                  \/ Eligible(RW[i])
                  \/ RISK_AVERSION > 0 /\ Positive(RW[i].W)

C6_Witness ==
    /\ pc = "done" /\ site \in BlendSites
    /\ \E i \in 1..Len(RW) : RW[i].R = Zero /\ Positive(comb[i])

\* C8: every allocation value is >= 0: the solver's, the safe allocation's
\* and the blend's, for every theta in [0,1] and P >= 0.
C8_NonNegative ==
    /\ \A i \in 1..Len(alloc) : alloc[i].m >= 0
    /\ \A i \in 1..Len(safe) : safe[i].m >= 0
    /\ \A i \in 1..Len(comb) : comb[i].m >= 0

C8_Witness ==
    /\ pc = "done" /\ site \in BlendSites /\ RISK_AVERSION = 50
    /\ \E i \in 1..Len(RW) : RW[i].W.m < 0
    /\ \E i \in 1..Len(RW) : Positive(safe[i]) /\ Positive(comb[i])

\* C9: for every theta, P > 0 and at least one active pool the blend sums to
\* P, as the aggressive and the safe allocation each do.
\* Stated for dashboards without negative revenue or weight.
\* Refuted by the code: when the active pools all have W = 0 the aggressive
\* allocation is all-zero (C1), and so is the blend's aggressive part.
C9_BlendSumsToBudget ==
    (/\ pc = "done" /\ site \in BlendSites /\ Positive(P) /\ SomeEligible
     /\ \A i \in 1..Len(RW) : RW[i].R.m >= 0 /\ RW[i].W.m >= 0) =>
        Close(Total(comb), P, SUM_RTOL)

C11_NoAvoidanceIsNoOp ==
    (site = "avoidance" /\ AVOID_FOUNDATION = 0 /\ pc # "main" /\ ~NothingToDo) =>
        /\ err = "none"
        /\ RW = Base(dash)

\* C12: with AVOID_FOUNDATION = 100 a pool whose relay score is 1 has
\* effective revenue and weight 0 and gets 0 from the solver, from the safe
\* allocation and from the blend, for every risk level, budget and other pools.
C12_FullAvoidanceSuppresses ==
    (site = "avoidance" /\ AVOID_FOUNDATION = 100) =>
        \A i \in 1..Len(dash) :
            penalties[i] = One =>
                /\ Called => RW[i].R = Zero /\ RW[i].W = Zero
                /\ Returned => alloc[i] = Zero
                /\ pc \in {"blend", "done"} => safe[i] = Zero
                /\ pc = "done" => comb[i] = Zero

C12_Witness ==
    /\ pc = "done" /\ site = "avoidance" /\ AVOID_FOUNDATION = 100
    /\ RISK_AVERSION = 50
    /\ \E i, j \in 1..Len(dash) :
          /\ penalties[i] = One /\ Positive(dash[i].R) /\ Positive(dash[i].W)
          /\ comb[i] = Zero /\ Positive(comb[j])

\* the relays of relay_votes that rank below top_k others (stable order)
Outranked(i) ==
    Cardinality({j \in 1..Len(relay_votes) :
        \/ Lt(relay_votes[i].va, relay_votes[j].va)
        \/ relay_votes[j].va = relay_votes[i].va /\ j < i}) >= TOP_K

\* some relay that counts votes for pool q
VotedByTop(q) ==
    \E i \in 1..Len(relay_votes) :
        ~Outranked(i) /\ \E j \in 1..Len(relay_votes[i].votes) :
                            relay_votes[i].votes[j].pool = q

\* scores in [0,1], nonzero only through a top_k relay, and effective values
\* between 0 and the dashboard's
EffectiveWithinBounds ==
    /\ \A i \in 1..Len(dash) :
          /\ Le(Zero, penalties[i]) /\ Le(penalties[i], One)
          /\ ~VotedByTop(i) => penalties[i] = Zero
    /\ \A i \in 1..Len(RW) :
          /\ Le(Zero, RW[i].R) /\ Le(RW[i].R, dash[i].R)
          /\ Le(Zero, RW[i].W) /\ Le(RW[i].W, dash[i].W)

\* C13: for every pool, avoidance level and relay votes with percents >= 0
\* the factor is defined and lies in [0,1], so 0 <= R_eff <= R and
\* 0 <= W_eff <= W; the scores lie in [0,1] and only the top_k relays by
\* voting amount contribute to them.
\* Refuted by the code through C11: at level 0 a score of 1 yields no factor
\* but decimal.InvalidOperation.
C13_FactorWithinUnitInterval ==
    (site = "avoidance" /\ pc # "main" /\ ~NothingToDo) =>
        /\ err = "none"
        /\ Len(RW) = Len(dash)
        /\ EffectiveWithinBounds

\* the part of C13 that the code keeps: whenever main() gets as far as the
\* solver, scores and effective values are within their bounds
C13_WithinBoundsWhenDefined ==
    (site = "avoidance" /\ pc = "solve") =>
        Len(RW) = Len(dash) /\ EffectiveWithinBounds

\* C14: on every path that takes the caller's prior votes off before solving
\* (run_optimization with re_run, and deduct_user_votes for a past period)
\* the weight handed to the solver for a pool with a prior vote is
\* max(W - prior, 0), never negative.  Stated for pools of valid weight.
\* Refuted by the code: deduct_user_votes writes W - prior as it is.
C14_DeductedWeightNotNegative ==
    (site = "shadow" /\ Called /\ (re_run \/ is_historical)) =>
        \A i \in 1..Len(RW) :
            LET q == RW[i].p IN
            (previous_votes[q].has /\ Le(Zero, dash[q].W)) =>
                /\ RW[i].W = Max2(Sub(dash[q].W, previous_votes[q].w), Zero)
                /\ Le(Zero, RW[i].W)

\* C15: the re-run / deduction step changes only the weight of pools with a
\* prior vote: every revenue and the weight of every pool without a prior
\* vote reach the solver unchanged, run_optimization with re_run = False
\* changes no weight of the dashboard it is given, and the input dashboard
\* and the prior votes are not written to.
C15_OnlyVotedWeightsChange ==
    /\ [](( site = "shadow" /\ Called) =>
            \A i \in 1..Len(RW) :
                LET q == RW[i].p IN
                /\ RW[i].R = dash[q].R
                /\ ~previous_votes[q].has => RW[i].W = dash[q].W
                /\ ~re_run => RW[i].W = Given[q].W
                /\ (~re_run /\ ~is_historical) => RW[i].W = dash[q].W)
    /\ [][dash' = dash /\ previous_votes' = previous_votes]_vars

C15_Witness ==
    /\ site = "shadow" /\ pc = "done" /\ Len(RW) = 2
    /\ \E i, j \in 1..Len(RW) :
          /\ previous_votes[RW[i].p].has /\ RW[i].W # dash[RW[i].p].W
          /\ ~previous_votes[RW[j].p].has /\ RW[j].W = dash[RW[j].p].W

\* C18: for every pool with a positive allocation d the reported expected
\* value is R * d / (W + d) rounded to cents, R the pool's revenue and W the
\* weight the solver used (in a re-run the weight after the deduction), and
\* total_expected_usd is the sum of the reported values.
\* Refuted by the code: run_optimization divides by locked + d, locked being
\* the weight before the deduction.
C18_ExpectedValueUsesSolverWeight ==
    (pc = "done" /\ site = "shadow") =>
        /\ DOMAIN exp_usd = Emitted(alloc)
        /\ \A i \in Emitted(alloc) :
              exp_usd[i] = ExpUsd(dash[RW[i].p].R, alloc[i], RW[i].W)
        /\ total_expected_usd = SumOver(exp_usd, DOMAIN exp_usd)

\* C16: whenever a pool has a positive allocation (for the basic optimizer:
\* the total score is positive) the emitted integer percentages sum to 100.
\* Refuted by the code: only allocate_percentages corrects the drift; the
\* other emitters round each share on its own.
C16_PercentagesSumTo100 ==
    pc = "emitted" =>
        /\ (site = "basic" /\ Positive(Total(basic_scores))) =>
              SumOver(pct, DOMAIN pct) = 100
        /\ (site # "basic" /\ Emitted(alloc) # {}) =>
              SumOver(pct, DOMAIN pct) = 100

\* the part of C16 that the code keeps: allocate_percentages sums to 100
C16_BasicSumsTo100 ==
    (pc = "emitted" /\ site = "basic" /\ Positive(Total(basic_scores))) =>
        SumOver(pct, DOMAIN pct) = 100

\* C17: every emitted percentage is an integer in 0..100, for any number of
\* pools and any scores or allocations, the entry of allocate_percentages
\* that absorbs the drift included.
\* Refuted by the code: when many shares round up, the drift 100 - sum is
\* below minus the percentage of the largest score.
C17_PercentagesInRange ==
    pc = "emitted" => \A i \in DOMAIN pct : pct[i] \in 0..100

\* a pool with negative revenue or negative weight
Invalid(p) == p.R.m < 0 \/ p.W.m < 0

\* the input with the invalid pools taken out
WithoutInvalid(rw) == SelectSeq(rw, LAMBDA p : ~Invalid(p))

\* the position in WithoutInvalid(rw) of the valid pool at position i of rw
PlaceAmongValid(rw, i) == Cardinality({j \in 1..i : ~Invalid(rw[j])})

\* C19: when the run has blended, a pool with negative revenue or negative
\* weight has 0 in the solver's allocation, in the safe allocation and in the
\* blend, no error is raised, and the safe allocation of every other pool is
\* the one compute_safe_allocation gives for the input without the invalid
\* pools.
\* Refuted by the code: compute_safe_allocation sums the negative weights
\* into total_W, which raises the share of every other pool.
C19_InvalidPoolAsIfAbsent ==
    (pc = "done" /\ site \in BlendSites) =>
        /\ err = "none"
        /\ \A i \in 1..Len(RW) :
              Invalid(RW[i]) =>
                  alloc[i] = Zero /\ safe[i] = Zero /\ comb[i] = Zero
        /\ \A i \in 1..Len(RW) :
              ~Invalid(RW[i]) =>
                  safe[i] = compute_safe_allocation(WithoutInvalid(RW), P)
                                [PlaceAmongValid(RW, i)]

\* the part of C19 that the code keeps: the invalid pool gets 0 everywhere
\* and nothing is raised
C19_InvalidPoolGetsZero ==
    (pc = "done" /\ site \in BlendSites) =>
        /\ err = "none"
        /\ \A i \in 1..Len(RW) :
              Invalid(RW[i]) =>
                  alloc[i] = Zero /\ safe[i] = Zero /\ comb[i] = Zero

\* the digits of a value, whatever precision it was computed with
RECURSIVE Stripped(_)
Stripped(x) ==
    IF x.m # 0 /\ x.m % 10 = 0 THEN Stripped([m |-> x.m \div 10, e |-> x.e + 1])
    ELSE x

\* two allocations of the same pools with the same amounts
SameAllocation(a, b) ==
    /\ Len(a) = Len(b)
    /\ \A i \in 1..Len(a) : Stripped(a[i]) = Stripped(b[i])

\* C20: the calls of the solver made so far, all with the same pools and the
\* same budget, have returned the same allocation, whether or not
\* lib/analytics.py was imported before or between them.
\* Refuted by the code: the solver computes with the precision of the
\* process's decimal context, which the import of lib/analytics.py lowers.
C20_SameArgumentsSameAllocation ==
    \A i, j \in 1..Len(results) : SameAllocation(results[i], results[j])

\* the part of C20 that the code keeps: calls made under one precision agree
C20_SameContextSameAllocation ==
    (prec = Prec /\ Len(results) = MaxCalls) =>
        SameAllocation(results[1], results[2])

\* C21: every call of the solver made in the process, from the main thread
\* or from a worker thread running concurrently with others, has returned
\* the allocation of the main thread's sequential call with the same pools
\* and budget (the first call made).
\* Refuted by the code: the 50 digits are set in the main thread's decimal
\* context only; a worker thread computes with its own default context.
C21_ThreadsReturnSequentialResult ==
    \A i \in 1..Len(results) : SameAllocation(results[i], results[1])

\* call b is call a with the revenue of pool i raised and nothing else changed
RaisedAt(a, b, i) ==
    /\ a.fn = "equal_marginal" /\ b.fn = "equal_marginal"
    /\ a.site = b.site /\ a.P = b.P /\ Positive(a.P)
    /\ Len(a.pools) = Len(b.pools) /\ i \in 1..Len(a.pools)
    /\ Lt(a.pools[i].R, b.pools[i].R) /\ a.pools[i].W = b.pools[i].W
    /\ \A j \in 1..Len(a.pools) : j # i => a.pools[j] = b.pools[j]

\* C22: when the solver was called on a list and then on the same list with
\* the revenue of pool i raised, with the same positive budget, the second
\* allocation of pool i is not below the first.
\* Refuted by the code: bisection ends on a multiplier that meets the budget
\* only approximately, and the error differs from one revenue to another.
C22_RaisingRevenueNeverLowers ==
    Len(results) = 2 =>
        \A i \in 1..Len(results[1]) :
            RaisedAt(args[1], args[2], i) => Le(results[1][i], results[2][i])

\* how far a call has come
Rank(p) ==
    CASE p = "call" -> 0 [] p = "solve" -> 1 [] p = "bracket" -> 2
      [] p = "bisect" -> 3 [] p = "closed" -> 4 [] p = "solved" -> 5
      [] OTHER -> 6

\* C23: every call of the solver ends.  The bracketing loop makes at most 200
\* passes, one evaluation of S each, and the bisection loop at most 100; a
\* bisection pass whose S(mid) is within 1e-12 of P is the last one; every
\* step of a call either moves it on to a later stage or is one more pass of
\* the loop it is in, so that a call takes at most 300 passes; a call that
\* raised stays raised, and a call that returned is not entered again.
C23_SolverTerminates ==
    /\ [](k <= 200 /\ it <= 100)
    /\ [][(pc = "bisect" /\ it < 100
             /\ Lt(DAbs(Sub(sum_delta(RW, Mid(lo, hi)), P)), Dec(1, -12)))
          => pc' = "closed"]_vars
    /\ [][\/ pc # "solved" /\ Rank(pc') > Rank(pc)
          \/ pc' = pc /\ pc \in {"bracket", "bisect"} /\ k' + it' = k + it + 1
          \/ pc = "solved" /\ pc' = "call" /\ results' = Append(results, alloc)]_vars
    /\ [][(pc = "raised" => pc' = "raised")
          /\ (Len(results) = 1 => pc' = "call")]_vars

\* a call that left the bisection loop early
C23_Witness ==
    /\ pc = "closed" /\ it < 100 /\ it > 0
    /\ Lt(DAbs(Sub(sum_delta(RW, lam), P)), Dec(1, -12))

\* C24: whenever equal_marginal executes, the precision of the decimal
\* context is the one lib/optimizer.py sets (50), also when the run is
\* started through shadow_manager.py
C24_SolverRunsAtOptimizerPrecision ==
    pc \in {"solve", "bracket", "bisect", "closed"} => prec = Prec

\* the bracket bisection works on: LAM_LO <= lo < hi <= the hi bracketing
\* ended with, and sum_delta(hi) < P
BracketHolds ==
    /\ Le(LAM_LO, lo) /\ Lt(lo, hi) /\ Le(hi, Doubled(LAM_HI, k))
    /\ Lt(sum_delta(RW, hi), P)

\* C25: during bisection LAM_LO <= lo < hi <= the bracketing hi and
\* sum_delta(hi) < P; a bisection pass never lowers lo and never raises hi;
\* the multiplier the closed form divides by lies in [lo, hi] and is positive
C25_BisectionKeepsBracket ==
    /\ [](pc = "bisect" => BracketHolds)
    /\ [][pc = "bisect" => Le(lo, lo') /\ Le(hi', hi)]_vars
    /\ [](pc = "closed" => Le(lo, lam) /\ Le(lam, hi) /\ Positive(lam))

\* bisection has moved both ends of the bracket and the multiplier is chosen
C25_Witness ==
    /\ pc = "closed" /\ it >= 2
    /\ Lt(LAM_LO, lo) /\ Lt(hi, Doubled(LAM_HI, k))
    /\ Le(lo, lam) /\ Le(lam, hi)

\* two calls of the solver with the same pools and the same budget, made
\* through two different copies of it
CopiesOf(a, b) ==
    /\ a.fn = "equal_marginal" /\ b.fn = "equal_marginal"
    /\ a.site # b.site /\ a.pools = b.pools /\ a.P = b.P

\* C26: the copies of the solver return the same allocation for the same
\* pools and budget: "lam = mid on the tolerance exit, else lam = lo" and
\* "lo = mid; break; lam = lo" choose the same multiplier.
\* Refuted by the code: the two exits choose the same multiplier, but the
\* copy of shadow/lib/optimizer.py is run by shadow_manager.py with the
\* precision lib/analytics.py leaves, the other copies with their own.
C26_CopiesReturnSameAllocation ==
    (Len(results) = 2 /\ CopiesOf(args[1], args[2]))
        => SameAllocation(results[1], results[2])

\* the caller's vote for dashboard pool q, as get_user_votes returned it
Voted(q) == user_votes.ok /\ user_votes.votes[q].has

\* the weight of dashboard pool q with the caller's vote taken off once: by
\* deduct_user_votes for a past period, by run_optimization otherwise
DeductedOnce(q) ==
    IF is_historical
    THEN ViaFloat(Sub(dash[q].W, user_votes.votes[q].w))
    ELSE Max2(Sub(dash[q].W, user_votes.votes[q].w), Zero)

\* C27: along every path through run_optimize the caller's prior vote is
\* taken off a pool's weight at most once: for a past period by
\* deduct_user_votes, run_optimization then running with re_run = False; for
\* the current period inside run_optimization only, where re_run is True
\* exactly when get_user_votes returned at least one vote
C27_VotesDeductedAtMostOnce ==
    /\ pc \in {"main", "solve"} =>
           (re_run <=> (~is_historical /\ HasVotes(user_votes)))
    /\ pc = "solve" =>
           \A i \in 1..Len(RW) :
               RW[i].W = IF Voted(RW[i].p) THEN DeductedOnce(RW[i].p)
                         ELSE dash[RW[i].p].W

\* a past period with a vote of the caller: the solver is entered with that
\* vote taken off the pool's weight
C27_Witness ==
    /\ pc = "solve" /\ is_historical /\ ~re_run
    /\ \E i \in 1..Len(RW) :
           /\ Voted(RW[i].p)
           /\ RW[i].W = DeductedOnce(RW[i].p)
           /\ RW[i].W # dash[RW[i].p].W

\* call a is a re-run of run_optimization on the dashboard of call b with
\* the caller's prior votes added to the weights; call b is a first run
RerunOf(a, b) ==
    /\ a.fn = "run_optimization" /\ b.fn = "run_optimization"
    /\ a.re_run /\ ~b.re_run /\ a.P = b.P
    /\ Len(a.votes) = Len(b.pools)
    /\ a.pools = WithVotes(b.pools, a.votes)

\* C28: when every dashboard weight is the external weight plus the caller's
\* prior vote, run_optimization with re_run = True and the prior votes
\* returns the per-pool allocation a first run returns on the external
\* weights
C28_RerunEqualsFirstRun ==
    (Len(results) = 2 /\ RerunOf(args[1], args[2]))
        => SameAllocation(results[1], results[2])

\* a re-run with a prior vote on a pool that gets a positive allocation, and
\* the first run on the external weights, have both returned
C28_Witness ==
    /\ Len(results) = 2 /\ RerunOf(args[1], args[2])
    /\ \E i \in 1..Len(args[1].votes) :
           args[1].votes[i].has /\ Positive(args[1].votes[i].w)
    /\ \E i \in 1..Len(results[1]) : Positive(results[1][i])
    /\ SameAllocation(results[1], results[2])

\* C29: the solver and the safe allocation each return exactly one entry per
\* input pool, in input order and with the input pool's identifier, for
\* active and inactive pools alike, so the blend pairs the two values of the
\* same pool and the assertion addr_a == addr_s never fails
C29_OneEntryPerPoolInOrder ==
    /\ err # "AssertionError"
    /\ (site \in BlendSites /\ pc \in {"blend", "done"}) =>
           /\ Len(RW) = Len(dash)
           /\ Len(alloc) = Len(dash) /\ Len(safe) = Len(dash)
           /\ AllocationPools(RW) = [i \in 1..Len(dash) |-> i]
           /\ SafePools(RW) = [i \in 1..Len(dash) |-> i]
    /\ (site \in BlendSites /\ pc = "done") => Len(comb) = Len(dash)

\* the blend is done on a list with an active pool and an inactive one, the
\* inactive pool first
C29_Witness ==
    /\ site = "avoidance" /\ pc = "done" /\ err = "none"
    /\ Len(RW) = 2 /\ ~IsActive(RW[1]) /\ IsActive(RW[2])
    /\ Len(comb) = 2 /\ Positive(comb[2])

\* C30: the output loops of run_optimization and of the aero script divide
\* by the total allocation and by the budget only for a pool with d > 0, and
\* then both are positive; when no pool has a positive allocation the list
\* of allocations is empty and total_expected_usd is 0
C30_OutputNeverDividesByZero ==
    /\ (site \in {"aero", "shadow"} /\ pc \in {"solved", "done"}
            /\ Emitted(alloc) # {})
           => Positive(Total(alloc)) /\ Positive(P)
    /\ (site \in {"aero", "shadow"} /\ pc = "done" /\ Emitted(alloc) = {})
           => pct = <<>> /\ exp_usd = <<>> /\ total_expected_usd = 0

\* the outputs are built from an allocation without a positive entry, for a
\* list of pools that is not empty
C30_Witness ==
    /\ site \in {"aero", "shadow"} /\ pc = "done"
    /\ Len(alloc) > 0 /\ Emitted(alloc) = {}
    /\ pct = <<>> /\ total_expected_usd = 0

====
